---------------------------- MODULE Spec2Model ----------------------------
(***************************************************************************)
(* A model of streamlit_app.py, the AI IVR dashboard: the cached loader    *)
(* load_data, the category registry category_mapping, the overall metrics  *)
(* and the two wide-to-long chart blocks (melt, label lookup, padding).    *)
(*                                                                         *)
(* Strings that the script slices or concatenates (column names, column    *)
(* prefixes) are tuples of characters, so that startswith and the          *)
(* f-string concatenation are computed and not assumed.  Display labels    *)
(* are only compared for equality and stay TLA+ strings.                   *)
(*                                                                         *)
(* A chart value is kept in hundredths (10 is 1000, 21.0 is 2100): the     *)
(* script multiplies an integer count by 1.05.                             *)
(***************************************************************************)
EXTENDS Integers, Sequences, FiniteSets

(***************************************************************************)
(* Bounds of the model.                                                    *)
(***************************************************************************)
MaxRows == 2      \* rows of the source file
MaxSel == 2       \* categories a user picks in the multiselect
MaxReads == 2     \* reads of the source file that are counted

(***************************************************************************)
(* Names.  Spelling gives every column name of the source file and of the  *)
(* loaded table as the characters it is written with.                      *)
(***************************************************************************)
Spelling ==
    << <<"date_",
         <<"d", "a", "t", "e", "_">>>>,
       <<"sb_sessions",
         <<"s", "b", "_", "s", "e", "s", "s", "i", "o", "n", "s">>>>,
       <<"sb_messages",
         <<"s", "b", "_", "m", "e", "s", "s", "a", "g", "e", "s">>>>,
       <<"device_return_sessions",
         <<"d", "e", "v", "i", "c", "e", "_", "r", "e", "t", "u", "r", "n", "_", "s", "e", "s", "s", "i", "o", "n", "s">>>>,
       <<"device_return_messages",
         <<"d", "e", "v", "i", "c", "e", "_", "r", "e", "t", "u", "r", "n", "_", "m", "e", "s", "s", "a", "g", "e", "s">>>>,
       <<"business_loan_sessions",
         <<"b", "u", "s", "i", "n", "e", "s", "s", "_", "l", "o", "a", "n", "_", "s", "e", "s", "s", "i", "o", "n", "s">>>>,
       <<"business_loan_messages",
         <<"b", "u", "s", "i", "n", "e", "s", "s", "_", "l", "o", "a", "n", "_", "m", "e", "s", "s", "a", "g", "e", "s">>>>,
       <<"customer_care_sessions",
         <<"c", "u", "s", "t", "o", "m", "e", "r", "_", "c", "a", "r", "e", "_", "s", "e", "s", "s", "i", "o", "n", "s">>>>,
       <<"customer_care_messages",
         <<"c", "u", "s", "t", "o", "m", "e", "r", "_", "c", "a", "r", "e", "_", "m", "e", "s", "s", "a", "g", "e", "s">>>>,
       <<"profile_sessions",
         <<"p", "r", "o", "f", "i", "l", "e", "_", "s", "e", "s", "s", "i", "o", "n", "s">>>>,
       <<"profile_messages",
         <<"p", "r", "o", "f", "i", "l", "e", "_", "m", "e", "s", "s", "a", "g", "e", "s">>>>,
       <<"edc_sessions",
         <<"e", "d", "c", "_", "s", "e", "s", "s", "i", "o", "n", "s">>>>,
       <<"edc_messages",
         <<"e", "d", "c", "_", "m", "e", "s", "s", "a", "g", "e", "s">>>>,
       <<"payment_acceptence_sessions",
         <<"p", "a", "y", "m", "e", "n", "t", "_", "a", "c", "c", "e", "p", "t", "e", "n", "c", "e", "_", "s", "e", "s", "s", "i", "o", "n", "s">>>>,
       <<"payment_acceptence_messages",
         <<"p", "a", "y", "m", "e", "n", "t", "_", "a", "c", "c", "e", "p", "t", "e", "n", "c", "e", "_", "m", "e", "s", "s", "a", "g", "e", "s">>>>,
       <<"refund_sessions",
         <<"r", "e", "f", "u", "n", "d", "_", "s", "e", "s", "s", "i", "o", "n", "s">>>>,
       <<"refund_messages",
         <<"r", "e", "f", "u", "n", "d", "_", "m", "e", "s", "s", "a", "g", "e", "s">>>>,
       <<"rental_charges_sessions",
         <<"r", "e", "n", "t", "a", "l", "_", "c", "h", "a", "r", "g", "e", "s", "_", "s", "e", "s", "s", "i", "o", "n", "s">>>>,
       <<"rental_charges_messages",
         <<"r", "e", "n", "t", "a", "l", "_", "c", "h", "a", "r", "g", "e", "s", "_", "m", "e", "s", "s", "a", "g", "e", "s">>>>,
       <<"generic_query_sessions",
         <<"g", "e", "n", "e", "r", "i", "c", "_", "q", "u", "e", "r", "y", "_", "s", "e", "s", "s", "i", "o", "n", "s">>>>,
       <<"generic_query_messages",
         <<"g", "e", "n", "e", "r", "i", "c", "_", "q", "u", "e", "r", "y", "_", "m", "e", "s", "s", "a", "g", "e", "s">>>>,
       <<"settlement_deductions_sessions",
         <<"s", "e", "t", "t", "l", "e", "m", "e", "n", "t", "_", "d", "e", "d", "u", "c", "t", "i", "o", "n", "s", "_", "s", "e", "s", "s", "i", "o", "n", "s">>>>,
       <<"settlement_deductions_messages",
         <<"s", "e", "t", "t", "l", "e", "m", "e", "n", "t", "_", "d", "e", "d", "u", "c", "t", "i", "o", "n", "s", "_", "m", "e", "s", "s", "a", "g", "e", "s">>>>,
       <<"other_sessions",
         <<"o", "t", "h", "e", "r", "_", "s", "e", "s", "s", "i", "o", "n", "s">>>>,
       <<"other_messages",
         <<"o", "t", "h", "e", "r", "_", "m", "e", "s", "s", "a", "g", "e", "s">>>>,
       <<"sb_hardware_sessions",
         <<"s", "b", "_", "h", "a", "r", "d", "w", "a", "r", "e", "_", "s", "e", "s", "s", "i", "o", "n", "s">>>>,
       <<"sb_hardware_messages",
         <<"s", "b", "_", "h", "a", "r", "d", "w", "a", "r", "e", "_", "m", "e", "s", "s", "a", "g", "e", "s">>>>,
       <<"edc_hardware_sessions",
         <<"e", "d", "c", "_", "h", "a", "r", "d", "w", "a", "r", "e", "_", "s", "e", "s", "s", "i", "o", "n", "s">>>>,
       <<"edc_hardware_messages",
         <<"e", "d", "c", "_", "h", "a", "r", "d", "w", "a", "r", "e", "_", "m", "e", "s", "s", "a", "g", "e", "s">>>>,
       <<"payment_acceptance_sessions",
         <<"p", "a", "y", "m", "e", "n", "t", "_", "a", "c", "c", "e", "p", "t", "a", "n", "c", "e", "_", "s", "e", "s", "s", "i", "o", "n", "s">>>>,
       <<"payment_acceptance_messages",
         <<"p", "a", "y", "m", "e", "n", "t", "_", "a", "c", "c", "e", "p", "t", "a", "n", "c", "e", "_", "m", "e", "s", "s", "a", "g", "e", "s">>>>,
       <<"overall_sessions",
         <<"o", "v", "e", "r", "a", "l", "l", "_", "s", "e", "s", "s", "i", "o", "n", "s">>>>,
       <<"overall_messages",
         <<"o", "v", "e", "r", "a", "l", "l", "_", "m", "e", "s", "s", "a", "g", "e", "s">>>> >>

Names == {Spelling[i][1] : i \in DOMAIN Spelling}
Chars == [n \in Names |-> (CHOOSE i \in DOMAIN Spelling : Spelling[i][1] = n)]
CharsOf(n) == Spelling[Chars[n]][2]

\* the name that is written cs; "?" stands for a name no table has
Intern(cs) ==
    IF \E n \in Names : CharsOf(n) = cs
    THEN CHOOSE n \in Names : CharsOf(n) = cs
    ELSE "?"

sessions == <<"s", "e", "s", "s", "i", "o", "n", "s">>
messages == <<"m", "e", "s", "s", "a", "g", "e", "s">>
MetricKinds == {sessions, messages}

\* f"{prefix}_{kind}"
ColumnName(prefix, kind) == Intern(prefix \o <<"_">> \o kind)

\* startswith gone wrong: only the first character is compared
FirstCharMatches(x, v) == Len(v) <= Len(x) /\ x[1] = v[1]

\* str.startswith
StartsWith(x, v) == Len(v) <= Len(x) /\ SubSeq(x, 1, Len(v)) = v

category_mapping ==
    << [label |-> "Soundbox Hardware",
        prefix |-> <<"s", "b", "_", "h", "a", "r", "d", "w", "a", "r", "e">>],
       [label |-> "Device Return",
        prefix |-> <<"d", "e", "v", "i", "c", "e", "_", "r", "e", "t", "u", "r", "n">>],
       [label |-> "Business Loan",
        prefix |-> <<"b", "u", "s", "i", "n", "e", "s", "s", "_", "l", "o", "a", "n">>],
       [label |-> "Customer Care",
        prefix |-> <<"c", "u", "s", "t", "o", "m", "e", "r", "_", "c", "a", "r", "e">>],
       [label |-> "Profile",
        prefix |-> <<"p", "r", "o", "f", "i", "l", "e">>],
       [label |-> "EDC Hardware",
        prefix |-> <<"e", "d", "c", "_", "h", "a", "r", "d", "w", "a", "r", "e">>],
       [label |-> "Payment Acceptence",
        prefix |-> <<"p", "a", "y", "m", "e", "n", "t", "_", "a", "c", "c", "e", "p", "t", "a", "n", "c", "e">>],
       [label |-> "Refund",
        prefix |-> <<"r", "e", "f", "u", "n", "d">>],
       [label |-> "Rental Charges",
        prefix |-> <<"r", "e", "n", "t", "a", "l", "_", "c", "h", "a", "r", "g", "e", "s">>],
       [label |-> "Generic Query",
        prefix |-> <<"g", "e", "n", "e", "r", "i", "c", "_", "q", "u", "e", "r", "y">>],
       [label |-> "Settlement & Deductions",
        prefix |-> <<"s", "e", "t", "t", "l", "e", "m", "e", "n", "t", "_", "d", "e", "d", "u", "c", "t", "i", "o", "n", "s">>],
       [label |-> "Others",
        prefix |-> <<"o", "t", "h", "e", "r">>] >>

Registry == DOMAIN category_mapping
Labels == {category_mapping[i].label : i \in Registry}
Prefixes == {category_mapping[i].prefix : i \in Registry}

\* category_mapping[cat]
PrefixOf(cat) ==
    category_mapping[CHOOSE i \in Registry : category_mapping[i].label = cat].prefix

\* [k for k, v in category_mapping.items() if x.startswith(v)]
Matches(x) ==
    LET F[i \in 0..Len(category_mapping)] ==
            IF i = 0 THEN <<>>
            ELSE IF StartsWith(CharsOf(x), category_mapping[i].prefix)
                 THEN Append(F[i - 1], category_mapping[i].label)
                 ELSE F[i - 1]
    IN  F[Len(category_mapping)]

\* lambda x: [...][0]
IntentOf(x) == Matches(x)[1]

\* IntentOf, tabulated over the names it is defined on
IntentLabel == [x \in {n \in Names : Matches(n) # <<>>} |-> IntentOf(x)]

\* f"{category_mapping[cat]}_{kind}", tabulated over the registry
IntentColumn ==
    [cat \in Labels |-> [kind \in MetricKinds |-> ColumnName(PrefixOf(cat), kind)]]

rename_map ==
    { <<"sb_sessions", "sb_hardware_sessions">>,
      <<"sb_messages", "sb_hardware_messages">>,
      <<"edc_sessions", "edc_hardware_sessions">>,
      <<"edc_messages", "edc_hardware_messages">>,
      <<"payment_acceptence_sessions", "payment_acceptance_sessions">>,
      <<"payment_acceptence_messages", "payment_acceptance_messages">> }

LegacyNames == {p[1] : p \in rename_map}
CanonicalNames == {p[2] : p \in rename_map}

\* rename gone wrong: the two payment_acceptence columns keep their names
RenamedHardwareOnly(c) ==
    IF c \in LegacyNames /\ StartsWith(CharsOf(c), <<"s", "b">>)
    THEN (CHOOSE p \in rename_map : p[1] = c)[2]
    ELSE IF c \in LegacyNames /\ StartsWith(CharsOf(c), <<"e", "d", "c">>)
    THEN (CHOOSE p \in rename_map : p[1] = c)[2]
    ELSE c

\* DataFrame.rename(columns=rename_map): the new name of one column
Renamed(c) ==
    IF c \in LegacyNames THEN (CHOOSE p \in rename_map : p[1] = c)[2] ELSE c

\* the column a canonical name came from
LegacyOf(c) ==
    IF c \in CanonicalNames THEN (CHOOSE p \in rename_map : p[2] = c)[1] ELSE c

(***************************************************************************)
(* Tables.  A table is a set of column names and a sequence of rows, each  *)
(* row a function from the column names to cell values.                    *)
(***************************************************************************)
NoTable == [columns |-> {}, rows |-> <<>>]

\* the columns the script reads, under the names load_data gives them
RequiredColumns ==
    {"date_", "overall_sessions", "overall_messages"}
        \cup {ColumnName(p, k) : p \in Prefixes, k \in MetricKinds}

\* the same columns under the names the source file gives them
SourceColumns == {LegacyOf(c) : c \in RequiredColumns}

\* A cell of date_ is a tuple: <<y, m, d>> is the text "y-m-d", and <<n>> is
\* the number or the timestamp n.
DateText(d) == <<2024, 11, d>>
DateNumber(n) == <<n>>

\* pd.to_datetime on one value: the timestamp, as a number that orders as
\* the calendar does
to_datetime(s) == <<s[1] * 10000 + s[2] * 100 + s[3]>>


(***************************************************************************)
(* The source file data/base_dod_data.csv.  A file is unreadable, or it    *)
(* holds a header and rows.  The cells of one row are the row's multiplier *)
(* times a weight that differs from column to column: no two category      *)
(* columns of a row hold the same count, the first category counts 0       *)
(* sessions in every row, and a row of multiplier -1 holds no positive     *)
(* count (the script reads the counts as they are, whatever their sign).   *)
(***************************************************************************)
\* the days and the multipliers the rows of a source are drawn from
Days == {1, 2}
Multipliers == {-1, 1}

Weight(c) ==
    IF c = "overall_sessions" THEN 66
    ELSE IF c = "overall_messages" THEN 210
    ELSE LET j == CHOOSE i \in Registry :
                    \E k \in MetricKinds :
                        LegacyOf(ColumnName(category_mapping[i].prefix, k)) = c
         IN  IF LegacyOf(ColumnName(category_mapping[j].prefix, sessions)) = c
             THEN j - 1
             ELSE j - 1 + Len(category_mapping)

SourceRow(date, v, cols) ==
    [c \in cols |-> IF c = "date_" THEN date ELSE v * Weight(c)]

SeqsUpTo(S, n) == UNION {[1..m -> S] : m \in 0..n}

\* files with the whole header and text dates
ValidSources ==
    { [readable |-> TRUE, date_dtype |-> "object",
       columns |-> SourceColumns, rows |-> rs] :
        rs \in SeqsUpTo({SourceRow(DateText(d), v, SourceColumns) :
                            d \in Days, v \in Multipliers}, MaxRows) }

\* files whose date_ column holds numbers: read_csv gives it an integer dtype
NumericDateSources ==
    { [readable |-> TRUE, date_dtype |-> "int64",
       columns |-> SourceColumns, rows |-> rs] :
        rs \in SeqsUpTo({SourceRow(DateNumber(d), v, SourceColumns) :
                            d \in Days, v \in Multipliers}, 1) }

\* files with one column of the header missing
ShortSources ==
    { [readable |-> TRUE, date_dtype |-> "object",
       columns |-> SourceColumns \ {c},
       rows |-> <<SourceRow(DateText(1), 1, SourceColumns \ {c})>>] :
        c \in SourceColumns }

\* a file that is absent or that read_csv cannot parse
BadSource ==
    [readable |-> FALSE, date_dtype |-> "object", columns |-> {}, rows |-> <<>>]

Sources == ValidSources \cup NumericDateSources \cup ShortSources \cup {BadSource}

(***************************************************************************)
(* load_data, without its cache.                                           *)
(***************************************************************************)
RenameRow(row, cols) ==
    [c \in {Renamed(x) : x \in cols} |->
        row[CHOOSE x \in cols : Renamed(x) = c]]

ConvertDate(row, dtype) ==
    IF dtype = "object"
    THEN [row EXCEPT !["date_"] = to_datetime(row["date_"])]
    ELSE row

\* a loader that checks the whole header: it raises when any column the
\* script reads is absent
load_data_checked(src) ==
    IF ~src.readable \/ ~(SourceColumns \subseteq src.columns)
    THEN [ok |-> FALSE, table |-> NoTable]
    ELSE [ok |-> TRUE,
          table |->
            [columns |-> {Renamed(x) : x \in src.columns},
             rows |-> [i \in 1..Len(src.rows) |->
                        RenameRow(ConvertDate(src.rows[i], src.date_dtype),
                                  src.columns)]]]

\* [ok, table]: ok is FALSE when read_csv or df['date_'] raises
load_data(src) ==
    IF ~src.readable \/ "date_" \notin src.columns
    THEN [ok |-> FALSE, table |-> NoTable]
    ELSE [ok |-> TRUE,
          table |->
            [columns |-> {Renamed(x) : x \in src.columns},
             rows |-> [i \in 1..Len(src.rows) |->
                        RenameRow(ConvertDate(src.rows[i], src.date_dtype),
                                  src.columns)]]]

(***************************************************************************)
(* The aggregation and the reshape.                                        *)
(***************************************************************************)
\* df[col].sum()
Sum(t, col) ==
    LET F[i \in 0..Len(t.rows)] ==
            IF i = 0 THEN 0 ELSE F[i - 1] + t.rows[i][col]
    IN  F[Len(t.rows)]

\* [f"{category_mapping[cat]}_{kind}" for cat in selected_categories]
SelectedIntent(sel, kind) ==
    [i \in 1..Len(sel) |-> IntentColumn[sel[i]][kind]]

\* a melt that goes row by row: one block of value columns per row
MeltRowMajor(t, value_vars) ==
    LET k == Len(value_vars)
    IN  [p \in 1..(k * Len(t.rows)) |->
            LET col == value_vars[((p - 1) % k) + 1]
                row == t.rows[((p - 1) \div k) + 1]
            IN  [date_ |-> row["date_"], Intent |-> col, value |-> row[col] * 100]]

\* DataFrame.melt(id_vars=['date_'], value_vars=...): one block of rows per
\* value column, the blocks in the order of value_vars
Melt(t, value_vars) ==
    LET n == Len(t.rows)
    IN  [p \in 1..(Len(value_vars) * n) |->
            LET col == value_vars[((p - 1) \div n) + 1]
                row == t.rows[((p - 1) % n) + 1]
            IN  [date_ |-> row["date_"], Intent |-> col, value |-> row[col] * 100]]

\* melted['Intent'].apply(lambda x: ...)
ApplyIntent(m) == [p \in 1..Len(m) |-> [m[p] EXCEPT !.Intent = IntentLabel[m[p].Intent]]]

\* melted['date_'].min()
DateMin(S) == CHOOSE x \in S : \A y \in S : x[1] <= y[1]
SetMax(S) == CHOOSE x \in S : \A y \in S : x >= y

\* melted[column].max()
ColumnMax(m) == SetMax({m[p].value : p \in 1..Len(m)})

\* max_val * 1.05
TimesHeadroom(x) == (x * 105) \div 100

\* padding gone wrong, in three ways: the two records appended once per
\* category of the frame; the label taken from the last record; max_val read
\* before the zero row is appended
PadPerIntent(m) ==
    IF m = <<>> THEN m
    ELSE LET min_date == DateMin({m[p].date_ : p \in 1..Len(m)})
             zero_row == [date_ |-> min_date, Intent |-> m[1].Intent, value |-> 0]
             top_buffer == [date_ |-> min_date, Intent |-> m[1].Intent,
                            value |-> TimesHeadroom(ColumnMax(Append(m, zero_row)))]
             n == Cardinality({m[p].Intent : p \in 1..Len(m)})
         IN  m \o [q \in 1..(2 * n) |-> IF q % 2 = 1 THEN zero_row ELSE top_buffer]

PadLastLabel(m) ==
    IF m = <<>> THEN m
    ELSE LET min_date == DateMin({m[p].date_ : p \in 1..Len(m)})
             zero_row == [date_ |-> min_date, Intent |-> m[Len(m)].Intent, value |-> 0]
             with_zero == Append(m, zero_row)
             max_val == ColumnMax(with_zero)
             top_buffer == [date_ |-> min_date, Intent |-> m[Len(m)].Intent,
                            value |-> TimesHeadroom(max_val)]
         IN  Append(with_zero, top_buffer)

PadRealMax(m) ==
    IF m = <<>> THEN m
    ELSE LET min_date == DateMin({m[p].date_ : p \in 1..Len(m)})
             zero_row == [date_ |-> min_date, Intent |-> m[1].Intent, value |-> 0]
             max_val == ColumnMax(m)
             top_buffer == [date_ |-> min_date, Intent |-> m[1].Intent,
                            value |-> TimesHeadroom(max_val)]
         IN  Append(Append(m, zero_row), top_buffer)

\* the "if not melted.empty" block; max_val is read from the frame that
\* already holds the zero row
Pad(m) ==
    IF m = <<>> THEN m
    ELSE LET min_date == DateMin({m[p].date_ : p \in 1..Len(m)})
             zero_row == [date_ |-> min_date, Intent |-> m[1].Intent, value |-> 0]
             with_zero == Append(m, zero_row)
             max_val == ColumnMax(with_zero)
             top_buffer == [date_ |-> min_date, Intent |-> with_zero[1].Intent,
                            value |-> TimesHeadroom(max_val)]
         IN  Append(with_zero, top_buffer)

\* the long-form frame handed to st.line_chart
Reshape(t, sel, kind) == Pad(ApplyIntent(Melt(t, SelectedIntent(sel, kind))))


(***************************************************************************)
(* The process.  Streamlit runs the script from top to bottom once when a  *)
(* session opens and once more after every interaction; a run is one       *)
(* synchronous step.  The store of st.cache_data outlives the runs, the    *)
(* script's own names do not.                                              *)
(***************************************************************************)
VARIABLES
    source,               \* data/base_dod_data.csv
    cache,                \* what st.cache_data holds for load_data, or NoTable
    reads,                \* times pd.read_csv ran
    pc,                   \* "start", "rerun": a run is due; "done": it ended
    df,                   \* the script's df (and filtered_df, its alias)
    total_sessions,       \* df['overall_sessions'].sum()
    total_messages,       \* df['overall_messages'].sum()
    selected_categories,  \* what st.multiselect returned
    sessions_melted,      \* the frame of the sessions chart
    messages_melted,      \* the frame of the messages chart
    charts,               \* the st.line_chart calls of the run (metric kinds)
    notices,              \* the st.info calls of the run
    error_at              \* where the run raised: "none", "load", "metrics",
                          \* "sessions", "messages"

vars == <<source, cache, reads, pc, df, total_sessions, total_messages,
          selected_categories, sessions_melted, messages_melted, charts,
          notices, error_at>>

\* default= of st.multiselect
DefaultSelection ==
    <<"Soundbox Hardware", "Business Loan", "Profile", "Payment Acceptence",
      "Settlement & Deductions", "EDC Hardware">>

\* what a user can leave in the multiselect: distinct labels, in click order
Selections ==
    {s \in SeqsUpTo(Labels, MaxSel) :
        \A i, j \in DOMAIN s : i # j => s[i] # s[j]}

\* the names a run has not bound
Unbound ==
    /\ df = NoTable
    /\ total_sessions = 0
    /\ total_messages = 0
    /\ selected_categories = <<>>
    /\ sessions_melted = <<>>
    /\ messages_melted = <<>>
    /\ charts = {}
    /\ notices = 0
    /\ error_at = "none"

Init ==
    /\ source \in Sources
    /\ cache = NoTable
    /\ reads = 0
    /\ pc = "start"
    /\ Unbound

\* load_data() without the cache: every call reads the source
UncachedLoad(store, src) ==
    LET r == load_data(src)
    IN  [ok |-> r.ok, table |-> r.table, read |-> TRUE]

\* load_data() under @st.cache_data: [ok, table, read]
CachedLoad(store, src) ==
    IF store # NoTable
    THEN [ok |-> TRUE, table |-> store, read |-> FALSE]
    ELSE LET r == load_data(src)
         IN  [ok |-> r.ok, table |-> r.table, read |-> TRUE]

\* the zero row concatenated onto the table itself
TableAfterRunPadded(t, sel) ==
    IF t.rows = <<>> THEN t
    ELSE [t EXCEPT !.rows =
            Append(t.rows, [c \in t.columns |->
                              IF c = "date_" THEN t.rows[1]["date_"] ELSE 0])]

\* the table the names df and filtered_df denote when the run ends: melt and
\* concat build new frames, and the sums only read
TableAfterRun(t, sel) == t

\* the columns of a chart block that the table lacks (melt raises KeyError)
MissingVars(t, sel, kind) ==
    {i \in 1..Len(sel) : SelectedIntent(sel, kind)[i] \notin t.columns}

\* a chart block without the "if selected_categories" guard
ChartBlockUnguarded(t, sel, kind) ==
    IF MissingVars(t, sel, kind) # {}
    THEN [raised |-> TRUE, melted |-> <<>>, chart |-> FALSE, info |-> FALSE]
    ELSE [raised |-> FALSE, melted |-> Reshape(t, sel, kind),
          chart |-> TRUE, info |-> FALSE]

\* one chart block, "if selected_categories: ... else: st.info(...)":
\* what it raises, binds, draws and tells
ChartBlock(t, sel, kind) ==
    IF sel # <<>>
    THEN IF MissingVars(t, sel, kind) # {}
         THEN [raised |-> TRUE, melted |-> <<>>, chart |-> FALSE, info |-> FALSE]
         ELSE [raised |-> FALSE, melted |-> Reshape(t, sel, kind),
               chart |-> TRUE, info |-> FALSE]
    ELSE [raised |-> FALSE, melted |-> <<>>, chart |-> FALSE, info |-> TRUE]

\* one run of the script with sel in the multiselect; ld, sb and mb are
\* bound once, as the script calls load_data and runs each block once
Script(sel) ==
    \E ld \in {CachedLoad(cache, source)} :
    \E sb \in {IF ld.ok THEN ChartBlock(ld.table, sel, sessions)
                ELSE ChartBlock(NoTable, <<>>, sessions)} :
    \E mb \in {IF ld.ok /\ ~sb.raised THEN ChartBlock(ld.table, sel, messages)
                ELSE ChartBlock(NoTable, <<>>, messages)} :
    LET t == ld.table
        metrics_ok == {"overall_sessions", "overall_messages"} \subseteq t.columns
    IN  /\ ld.read => reads < MaxReads
        /\ reads' = IF ld.read THEN reads + 1 ELSE reads
        /\ cache' = IF ld.ok THEN t ELSE cache
        /\ pc' = "done"
        /\ UNCHANGED source
        /\ IF ~ld.ok
           THEN /\ error_at' = "load"
                /\ UNCHANGED <<df, total_sessions, total_messages,
                               selected_categories, sessions_melted,
                               messages_melted, charts, notices>>
           ELSE IF ~metrics_ok
           THEN /\ error_at' = "metrics"
                /\ df' = t
                /\ total_sessions' =
                     IF "overall_sessions" \in t.columns
                     THEN Sum(t, "overall_sessions") ELSE 0
                /\ UNCHANGED <<total_messages, selected_categories,
                               sessions_melted, messages_melted, charts,
                               notices>>
           ELSE /\ df' = TableAfterRun(t, sel)
                /\ total_sessions' = Sum(t, "overall_sessions")
                /\ total_messages' = Sum(t, "overall_messages")
                /\ selected_categories' = sel
                /\ IF sb.raised
                   THEN /\ error_at' = "sessions"
                        /\ charts' = {}
                        /\ notices' = 0
                        /\ UNCHANGED <<sessions_melted, messages_melted>>
                   ELSE /\ sessions_melted' = sb.melted
                        /\ messages_melted' = mb.melted
                        /\ error_at' = IF mb.raised THEN "messages" ELSE "none"
                        /\ charts' = {k \in MetricKinds :
                                        \/ k = sessions /\ sb.chart
                                        \/ k = messages /\ mb.chart}
                        /\ notices' = (IF sb.info THEN 1 ELSE 0)
                                        + (IF mb.info THEN 1 ELSE 0)

\* the run that opens the session: the multiselect holds its default
FirstRun ==
    /\ pc = "start"
    /\ Script(DefaultSelection)

\* a run after an interaction: the multiselect holds what the user left in it
Rerun(sel) ==
    /\ pc = "rerun"
    /\ Script(sel)

\* the user touches the page: Streamlit schedules a run, in a fresh namespace
Interact ==
    /\ pc = "done"
    /\ pc' = "rerun"
    /\ df' = NoTable
    /\ total_sessions' = 0
    /\ total_messages' = 0
    /\ selected_categories' = <<>>
    /\ sessions_melted' = <<>>
    /\ messages_melted' = <<>>
    /\ charts' = {}
    /\ notices' = 0
    /\ error_at' = "none"
    /\ UNCHANGED <<source, cache, reads>>

Next ==
    \/ FirstRun
    \/ \E sel \in Selections : Rerun(sel)
    \/ Interact

Spec == Init /\ [][Next]_vars

TypeOK ==
    /\ source.readable \in BOOLEAN
    /\ reads \in 0..MaxReads
    /\ pc \in {"start", "rerun", "done"}
    /\ error_at \in {"none", "load", "metrics", "sessions", "messages"}
    /\ charts \subseteq MetricKinds
    /\ notices \in 0..2


(***************************************************************************)
(* Vocabulary of the properties.                                           *)
(***************************************************************************)
N == Len(df.rows)
K == Len(selected_categories)
Frame(kind) == IF kind = sessions THEN sessions_melted ELSE messages_melted

\* the run ended and the block of kind handed a frame to st.line_chart
Drawn(kind) == pc = "done" /\ kind \in charts

\* the record of row i and of the j-th selected category
Triple(i, j, kind) ==
    [date_ |-> df.rows[i]["date_"],
     Intent |-> selected_categories[j],
     value |-> df.rows[i][IntentColumn[selected_categories[j]][kind]] * 100]

\* all of them
Triples(kind) == [i \in 1..N |-> [j \in 1..K |-> Triple(i, j, kind)]]

RealValues(m) == {m[p].value : p \in 1..(Len(m) - 2)}
Largest(S) == CHOOSE x \in S : \A y \in S : y <= x

\* the source has every column the script reads, and can be read
Complete == source.readable /\ SourceColumns \subseteq source.columns

(***************************************************************************)
(* C1.  With N >= 1 rows and k >= 1 selected categories, each chart frame  *)
(* holds exactly k*N + 2 records: first k*N records that carry, N each,    *)
(* the labels of the selected categories, then two padding records for     *)
(* the whole frame.                                                        *)
(***************************************************************************)
C1_RecordCount ==
    \A kind \in MetricKinds :
        Drawn(kind) /\ N >= 1 =>
            LET m == Frame(kind)
            IN  /\ Len(m) = K * N + 2
                /\ \A j \in 1..K :
                     Cardinality({p \in 1..(K * N) :
                                    m[p].Intent = selected_categories[j]}) = N

C1_Witness ==
    /\ Drawn(sessions) /\ Drawn(messages)
    /\ N = 2 /\ K = 2
    /\ Len(sessions_melted) = 6 /\ Len(messages_melted) = 6

(***************************************************************************)
(* C2.  When a frame holds a real record, its last two records are the     *)
(* zero-floor record and then the headroom record; both carry the least    *)
(* date of the real records and the label of the frame's first record,     *)
(* which is the label of the first selected category.                      *)
(***************************************************************************)
C2_PaddingPlacement ==
    \A kind \in MetricKinds :
        Drawn(kind) /\ N >= 1 =>
            LET m == Frame(kind)
                z == m[Len(m) - 1]
                h == m[Len(m)]
            IN  /\ z.value = 0
                /\ z.date_ = h.date_
                /\ \E p \in 1..(Len(m) - 2) : m[p].date_ = z.date_
                /\ \A p \in 1..(Len(m) - 2) : z.date_[1] <= m[p].date_[1]
                /\ z.Intent = m[1].Intent
                /\ h.Intent = m[1].Intent
                /\ m[1].Intent = selected_categories[1]

\* the least date is not the first row's, and two categories are selected
C2_Witness ==
    /\ Drawn(sessions)
    /\ N = 2 /\ K = 2
    /\ df.rows[2]["date_"][1] < df.rows[1]["date_"][1]
    /\ sessions_melted[Len(sessions_melted)].date_ = df.rows[2]["date_"]
    /\ sessions_melted[Len(sessions_melted)].Intent = selected_categories[1]

(***************************************************************************)
(* C3, as the claim has it.  The headroom record's value is 1.05 times the *)
(* largest value of the real records alone.                                *)
(***************************************************************************)
C3_HeadroomOverRealOnly ==
    \A kind \in MetricKinds :
        Drawn(kind) /\ N >= 1 =>
            LET m == Frame(kind)
            IN  /\ m[Len(m) - 1].value = 0
                /\ m[Len(m)].value * 100 = 105 * Largest(RealValues(m))

(***************************************************************************)
(* C3, amended.  The zero-floor record's value is 0 and the headroom       *)
(* record's value is 1.05 times the largest value of the real records and  *)
(* the zero-floor record together: 1.05 * max(0, largest real value).      *)
(***************************************************************************)
C3_HeadroomOverRealAndZero ==
    \A kind \in MetricKinds :
        Drawn(kind) /\ N >= 1 =>
            LET m == Frame(kind)
            IN  /\ m[Len(m) - 1].value = 0
                /\ m[Len(m)].value * 100 = 105 * Largest(RealValues(m) \cup {0})

\* every real value is negative, and the headroom is 0
C3_Witness ==
    /\ Drawn(messages)
    /\ N >= 1
    /\ \A v \in RealValues(messages_melted) : v < 0
    /\ messages_melted[Len(messages_melted)].value = 0

(***************************************************************************)
(* C4, as the claim has it.  The real records go row by row: with k        *)
(* selected categories, record (i-1)*k + j is the one of row i and of the  *)
(* j-th selected category.                                                 *)
(***************************************************************************)
C4_RowByRow ==
    \A kind \in MetricKinds :
        Drawn(kind) =>
            \A E \in {Triples(kind)} :
                \A i \in 1..N, j \in 1..K :
                    Frame(kind)[(i - 1) * K + j] = E[i][j]

(***************************************************************************)
(* C4, amended.  The real records go category by category: the categories  *)
(* in the order they were selected and, within one category, the rows in   *)
(* the table's order; record (j-1)*N + i is the one of the j-th selected   *)
(* category and of row i.                                                  *)
(***************************************************************************)
C4_CategoryByCategory ==
    \A kind \in MetricKinds :
        Drawn(kind) =>
            \A E \in {Triples(kind)} :
                \A i \in 1..N, j \in 1..K :
                    Frame(kind)[(j - 1) * N + i] = E[i][j]

\* two rows of different dates and two categories: the second record is the
\* second row of the first category
C4_Witness ==
    /\ Drawn(sessions)
    /\ N = 2 /\ K = 2
    /\ df.rows[1]["date_"] # df.rows[2]["date_"]
    /\ sessions_melted[2] = Triple(2, 1, sessions)

\* the part of C5 that is about the registry alone
LookupInvertsRegistry ==
    /\ \A a, b \in Registry :
         a # b => ~StartsWith(category_mapping[a].prefix, category_mapping[b].prefix)
    /\ \A a \in Registry, kind \in MetricKinds :
         /\ Matches(ColumnName(category_mapping[a].prefix, kind))
              = <<category_mapping[a].label>>
         /\ PrefixOf(IntentOf(ColumnName(category_mapping[a].prefix, kind)))
              = category_mapping[a].prefix

(***************************************************************************)
(* C5.  No registry prefix is a prefix of another; for every category and  *)
(* metric kind the first-match startswith lookup matches the derived       *)
(* column name with that category alone; and a frame holds, for every row  *)
(* and every selected category, exactly one real record (row date, label   *)
(* of that category, value of the row in the category's column).           *)
(***************************************************************************)
C5_LabelOfColumn ==
    /\ LookupInvertsRegistry
    /\ \A kind \in MetricKinds :
         Drawn(kind) =>
            \A E \in {Triples(kind)}, m \in {Frame(kind)} :
                \A i \in 1..N, j \in 1..K :
                    Cardinality({p \in 1..(K * N) : m[p] = E[i][j]})
                      = Cardinality({r \in 1..N : E[r][j] = E[i][j]})

\* two categories whose prefixes begin alike are charted
C5_Witness ==
    /\ Drawn(sessions) /\ Drawn(messages)
    /\ N >= 1
    /\ selected_categories = <<"Settlement & Deductions", "Soundbox Hardware">>
    /\ sessions_melted[1].Intent = "Settlement & Deductions"

(***************************************************************************)
(* C6.  A run that reaches the chart blocks with nothing selected builds   *)
(* no record, real or padding, for either metric kind, draws no chart,     *)
(* raises nothing, and shows the notice in each of the two blocks.         *)
(***************************************************************************)
C6_EmptySelection ==
    pc = "done" /\ error_at \notin {"load", "metrics"} /\ selected_categories = <<>> =>
        /\ sessions_melted = <<>>
        /\ messages_melted = <<>>
        /\ charts = {}
        /\ notices = 2
        /\ error_at = "none"

C6_Witness ==
    /\ pc = "done"
    /\ cache # NoTable /\ df = cache /\ N >= 1
    /\ reads = 1
    /\ error_at = "none"
    /\ selected_categories = <<>>
    /\ notices = 2

(***************************************************************************)
(* C7, as the claim has it.  Over any runs of one process the source file  *)
(* is read at most once.                                                   *)
(***************************************************************************)
C7_ReadAtMostOnce == reads <= 1

(***************************************************************************)
(* C7, amended.  Once a load has returned a table, the stored table stays  *)
(* as it is, the source is not read again, and every later run gets a      *)
(* table equal to the stored one.  (A load that raised stored nothing; the *)
(* next run reads the source again.)                                       *)
(***************************************************************************)
C7_ReadOnceLoaded ==
    [][cache # NoTable =>
         /\ reads' = reads
         /\ cache' = cache
         /\ (pc' = "done" => df' = cache /\ error_at' # "load")]_vars

\* a later run (its selection is not the default one) of a process that read
\* the source once
C7_Witness ==
    /\ pc = "done"
    /\ reads = 1
    /\ cache # NoTable /\ df = cache
    /\ selected_categories # DefaultSelection
    /\ K = 1

(***************************************************************************)
(* C8, as the claim has it.  load fails, and the run gets no table, when   *)
(* the source cannot be read or any required column is absent from it.     *)
(***************************************************************************)
C8_FailsOnAnyMissingColumn ==
    pc = "done" /\ ~Complete => error_at = "load" /\ df = NoTable

(***************************************************************************)
(* C8, amended.  load fails, and the run gets no table and nothing is      *)
(* stored, exactly when the source cannot be read or parsed or its date_   *)
(* column is absent.  When any other required column is absent load        *)
(* returns the table without it; the run then raises where it first reads  *)
(* the column: at the metrics for overall_sessions and overall_messages,   *)
(* in the sessions or messages chart block when a category of that column  *)
(* is selected, and nowhere otherwise.                                     *)
(***************************************************************************)
C8_FailsOnUnreadableOrNoDate ==
    pc = "done" =>
        \A cols \in {{Renamed(c) : c \in source.columns}} :
        LET fails == ~source.readable \/ "date_" \notin source.columns
            lacks(kind) == \E j \in 1..K :
                              IntentColumn[selected_categories[j]][kind] \notin cols
        IN  /\ fails => error_at = "load" /\ df = NoTable /\ cache = NoTable
            /\ ~fails =>
                 /\ cache # NoTable /\ df = cache /\ df.columns = cols
                 /\ error_at =
                      IF ~({"overall_sessions", "overall_messages"} \subseteq cols)
                      THEN "metrics"
                      ELSE IF lacks(sessions) THEN "sessions"
                      ELSE IF lacks(messages) THEN "messages"
                      ELSE "none"

\* load raised on a readable source that lacks date_
C8_Witness ==
    /\ pc = "done"
    /\ source.readable
    /\ "date_" \notin source.columns
    /\ reads = 1
    /\ error_at = "load"

=============================================================================
